---------------------------- MODULE Spec2Model ----------------------------
(***************************************************************************)
(* A model of the two HSBCtools scripts.                                   *)
(*                                                                         *)
(*   hsbccc2csv.py  converts the text of credit card statements into CSV   *)
(*                  files: main loops over the input files and runs        *)
(*                  process_pdf_file on each.                              *)
(*   hsbcfixcsv.py  rewrites current account CSV exports: process_csv_file *)
(*                  applies six text rewrites in a fixed order.            *)
(*                                                                         *)
(* Texts are strings.  Python's 0-based half-open slices s[a:b] become     *)
(* SubSeq(s, a+1, b).  Amounts are integers counted in cents: every amount *)
(* the scripts parse has exactly two fraction digits.  IEEE negative zero  *)
(* (-1 * 0.0) is identified with zero.                                     *)
(***************************************************************************)
EXTENDS Integers, Sequences, FiniteSets, TLC

VARIABLES
    pdf_files,      \* main: the globbed input files, each a sequence of page texts
    idx,            \* main: position of the for loop in pdf_files (0 before it)
    pc,             \* the statement of main / process_pdf_file that runs next
    text,           \* process_pdf_file: text
    stmt_date,      \* process_pdf_file: stmt_date
    summary,        \* process_pdf_file: opening_balance, payments, new_charges, closing_balance
    transactions,   \* process_pdf_file: transactions
    err,            \* the exception that is propagating, or None
    stdout,         \* what main and process_pdf_file printed
    called,         \* the files process_pdf_file was called on
    csv_files,      \* the output files written: file index -> rows
    csv_in,         \* hsbcfixcsv: content of the input file
    txns,           \* hsbcfixcsv process_csv_file: txns
    pcf,            \* hsbcfixcsv: the statement of process_csv_file that runs next
    csv_out         \* hsbcfixcsv: content of the _transformed file, or None

vars == <<pdf_files, idx, pc, text, stmt_date, summary, transactions, err,
          stdout, called, csv_files, csv_in, txns, pcf, csv_out>>

ccvars == <<pdf_files, idx, pc, text, stmt_date, summary, transactions, err,
            stdout, called, csv_files>>

fixvars == <<csv_in, txns, pcf, csv_out>>

None == "None"

-----------------------------------------------------------------------------
(* Strings and characters                                                  *)

Digits == {"0", "1", "2", "3", "4", "5", "6", "7", "8", "9"}

months == {"JAN", "FEB", "MAR", "APR", "MAY", "JUN",
           "JUL", "AUG", "SEP", "OCT", "NOV", "DEC"}

\* s[i] of a 1-based string, "" outside it
At(s, i) == IF i >= 1 /\ i <= Len(s) THEN SubSeq(s, i, i) ELSE ""

\* s[i:] (1-based i)
From(s, i) == SubSeq(s, i, Len(s))

\* s.startswith(p, i-1)
HasAt(s, i, p) == i >= 1 /\ i + Len(p) - 1 <= Len(s) /\ SubSeq(s, i, i + Len(p) - 1) = p

AllDigits(s, i, j) == \A k \in i..j : At(s, k) \in Digits

SetMin(S) == CHOOSE x \in S : \A y \in S : x <= y

SetMax(S) == CHOOSE x \in S : \A y \in S : x >= y

DigitVal(c) ==
    CASE c = "0" -> 0 [] c = "1" -> 1 [] c = "2" -> 2 [] c = "3" -> 3
      [] c = "4" -> 4 [] c = "5" -> 5 [] c = "6" -> 6 [] c = "7" -> 7
      [] c = "8" -> 8 [] c = "9" -> 9

\* the code point order of the characters a date key can hold
Ord(c) == IF c = "-" THEN 45 ELSE IF c = "/" THEN 47 ELSE 48 + DigitVal(c)

\* str.replace(old, '') for a one-character old
RECURSIVE Remove(_, _)
Remove(s, c) ==
    IF s = "" THEN ""
    ELSE (IF At(s, 1) = c THEN "" ELSE At(s, 1)) \o Remove(From(s, 2), c)

\* str.replace(old, new) for a one-character old
RECURSIVE Replace(_, _, _)
Replace(s, c, d) ==
    IF s = "" THEN ""
    ELSE (IF At(s, 1) = c THEN d ELSE At(s, 1)) \o Replace(From(s, 2), c, d)

Whitespace == {" ", "\n", "\t", "\r"}

\* str.strip()
strip(s) ==
    LET keep == {i \in 1..Len(s) : At(s, i) \notin Whitespace}
    IN  IF keep = {} THEN "" ELSE SubSeq(s, SetMin(keep), SetMax(keep))

\* int(s) of a string of decimal digits
RECURSIVE int(_)
int(s) == IF s = "" THEN 0 ELSE 10 * int(SubSeq(s, 1, Len(s) - 1)) + DigitVal(At(s, Len(s)))

\* float(s) succeeds: surrounding whitespace is ignored; digits, a point and two
\* fraction digits are a number. Any other text the scripts can pass to float
\* (a numeral followed by CR) raises ValueError
IsFloat(s) ==
    LET t == strip(s)
        n == Len(t)
    IN  n >= 4 /\ At(t, n - 2) = "." /\ AllDigits(t, 1, n - 3) /\ AllDigits(t, n - 1, n)

\* float(s), in cents, where it succeeds
float(s) ==
    LET t == strip(s)
        n == Len(t)
    IN  100 * int(SubSeq(t, 1, n - 3)) + int(SubSeq(t, n - 1, n))

\* the text lines of s (split at "\n")
RECURSIVE SplitLines(_)
SplitLines(s) ==
    LET nl == {i \in 1..Len(s) : At(s, i) = "\n"}
    IN  IF nl = {} THEN <<s>>
        ELSE <<SubSeq(s, 1, SetMin(nl) - 1)>> \o SplitLines(From(s, SetMin(nl) + 1))

-----------------------------------------------------------------------------
(* hsbccc2csv.py: the functions process_pdf_file calls                     *)

\* an exception: its class, and the declared and the computed value its message
\* carries (the reconciliation failures; 0 otherwise)
Exc(kind, declared, computed) == [kind |-> kind, declared |-> declared, computed |-> computed]

NoErr == Exc(None, 0, 0)

\* index of the first character at or after j that is not a space
SkipSp(s, j) == SetMin({k \in j..(Len(s) + 1) : At(s, k) # " "})

\* index of the first "." at or after i, 0 if there is none
FirstDot(s, i) ==
    LET dots == {k \in i..Len(s) : At(s, k) = "."}
    IN  IF dots = {} THEN 0 ELSE SetMin(dots)

Commas(w) == Cardinality({k \in 1..Len(w) : At(w, k) = ","})

\* w matches [0-9]*,?[0-9]+
SummaryIntPart(w) ==
    /\ Len(w) >= 1
    /\ \A k \in 1..Len(w) : At(w, k) \in Digits \cup {","}
    /\ Commas(w) <= 1
    /\ At(w, Len(w)) \in Digits

\* index of the last character of the match of [0-9]*,?[0-9]+\.[0-9]{2} that
\* starts at i, 0 if there is none
NumEnd(s, i) ==
    LET d == FirstDot(s, i)
    IN  IF d > i /\ SummaryIntPart(SubSeq(s, i, d - 1)) /\ AllDigits(s, d + 1, d + 2)
        THEN d + 2 ELSE 0

\* s[-2:]
Last2(s) == IF Len(s) <= 2 THEN s ELSE SubSeq(s, Len(s) - 1, Len(s))

\* s[:-2]
DropLast2(s) == IF Len(s) <= 2 THEN "" ELSE SubSeq(s, 1, Len(s) - 2)

StmtDateLabel == "Statement Date  "

\* the pattern of get_stmt_date matches at i
StmtDateAt(s, i) ==
    /\ HasAt(s, i - Len(StmtDateLabel), StmtDateLabel)
    /\ AllDigits(s, i, i + 1)
    /\ \E m \in months : HasAt(s, i + 2, m)
    /\ AllDigits(s, i + 5, i + 8)

\* pattern.search(text) of get_stmt_date: the positions it matches at
StmtDateSearch(s) == {i \in 1..Len(s) : StmtDateAt(s, i)}

\* get_stmt_date where the search finds a match
get_stmt_date(s) == LET i == SetMin(StmtDateSearch(s)) IN SubSeq(s, i, i + 8)

SummaryLabel ==
    "Account Summary\n Opening balance  Payments/Credits  New charges/debits  Closing balance\n -  +  =\n "

\* the groups of the Account Summary pattern matched with OpeningBalance
\* starting at i; ok is FALSE when the pattern does not match there
SummaryGroupsAt(s, i) ==
    LET e1 == NumEnd(s, i)
        o  == IF e1 > 0 /\ HasAt(s, e1 + 1, "CR") THEN e1 + 2 ELSE e1
        p  == SkipSp(s, o + 1)
        e2 == NumEnd(s, p)
        q  == SkipSp(s, e2 + 1)
        e3 == NumEnd(s, q)
        r  == SkipSp(s, e3 + 1)
        e4 == NumEnd(s, r)
        ok == /\ HasAt(s, i - Len(SummaryLabel), SummaryLabel)
              /\ e1 > 0 /\ p > o + 1
              /\ e2 > 0 /\ q > e2 + 1
              /\ e3 > 0 /\ r > e3 + 1
              /\ e4 > 0
    IN  IF ok
        THEN [ok |-> TRUE,
              OpeningBalance |-> SubSeq(s, i, o), Payments |-> SubSeq(s, p, e2),
              NewCharges |-> SubSeq(s, q, e3), ClosingBalance |-> SubSeq(s, r, e4)]
        ELSE [ok |-> FALSE,
              OpeningBalance |-> "", Payments |-> "", NewCharges |-> "", ClosingBalance |-> ""]

\* pattern.search(text) of get_account_summary: the positions it matches at
SummarySearch(s) == {i \in 1..Len(s) : SummaryGroupsAt(s, i).ok}

\* the sign of the closing balance: the branch taken on match['ClosingBalance'][-2:]
ClosingBalanceValue(g) ==
    IF Last2(g) = "CR" THEN float(Remove(DropLast2(g), ","))
    ELSE -1 * float(Remove(g, ","))

\* get_account_summary where the search finds a match
get_account_summary(s) ==
    LET match == SummaryGroupsAt(s, SetMin(SummarySearch(s)))
    IN  [opening_balance |->
            IF Last2(match.OpeningBalance) = "CR"
            THEN float(Remove(DropLast2(match.OpeningBalance), ","))
            ELSE -1 * float(Remove(match.OpeningBalance, ",")),
         payments |-> float(Remove(match.Payments, ",")),
         new_charges |-> -1 * float(Remove(match.NewCharges, ",")),
         closing_balance |-> ClosingBalanceValue(match.ClosingBalance)]

\* extract_text: a page without text raises NoTextError
HasEmptyPage(pages) == \E k \in 1..Len(pages) : pages[k] = ""

RECURSIVE Concat(_)
Concat(pages) == IF pages = <<>> THEN "" ELSE Head(pages) \o Concat(Tail(pages))

extract_text(pages) == Concat(pages)

\* s matches [0-9]{2}(JAN|...|DEC) followed by a space, at i
DateTokenAt(s, i) ==
    /\ AllDigits(s, i, i + 1)
    /\ \E m \in months : HasAt(s, i + 2, m)
    /\ At(s, i + 5) = " "

\* w matches [0-9]+,?[0-9]*
AmountIntPart(w) ==
    /\ Len(w) >= 1
    /\ \A k \in 1..Len(w) : At(w, k) \in Digits \cup {","}
    /\ Commas(w) <= 1
    /\ At(w, 1) \in Digits

\* r matches (CR)*
CRs(r) == /\ Len(r) % 2 = 0
          /\ \A k \in 1..(Len(r) \div 2) : SubSeq(r, 2 * k - 1, 2 * k) = "CR"

\* s[j:] matches the Amount group up to the end of the line:
\*  [0-9]+,?[0-9]*\.[0-9]{2} {0,2}(CR)*$ after one space
AmountAt(s, j) ==
    LET d == FirstDot(s, j)
        t == SkipSp(s, d + 3)
    IN  /\ At(s, j) = " "
        /\ d > j + 1
        /\ AmountIntPart(SubSeq(s, j + 1, d - 1))
        /\ AllDigits(s, d + 1, d + 2)
        /\ t - (d + 3) <= 2
        /\ CRs(From(s, t))

\* the positions the Amount group can start at when the match starts at i:
\* TransactionDetails (.+) holds at least one character
AmountStarts(s, i) == {j \in (i + 13)..Len(s) : AmountAt(s, j)}

\* the transaction pattern matches the line s from i
TxnAt(s, i) == DateTokenAt(s, i) /\ DateTokenAt(s, i + 6) /\ AmountStarts(s, i) # {}

\* the groups of the leftmost match in a line; .+ is greedy, so the Amount group
\* is the last one that fits
LineGroups(s) ==
    LET i == SetMin({k \in 1..Len(s) : TxnAt(s, k)})
        j == SetMax(AmountStarts(s, i))
    IN  [PostingDate |-> SubSeq(s, i, i + 5),
         TransactionDate |-> SubSeq(s, i + 6, i + 11),
         TransactionDetails |-> SubSeq(s, i + 12, j - 1),
         Amount |-> From(s, j)]

RECURSIVE MatchLines(_)
MatchLines(ls) ==
    IF ls = <<>> THEN <<>>
    ELSE (IF \E k \in 1..Len(Head(ls)) : TxnAt(Head(ls), k)
          THEN <<LineGroups(Head(ls))>> ELSE <<>>) \o MatchLines(Tail(ls))

\* no part of the pattern matches a line break and $ is the end of a line:
\* finditer yields at most one match per line, in text order
extract_transaction_lines(txt) == MatchLines(SplitLines(txt))

strip_spaces(lines) ==
    [k \in 1..Len(lines) |->
        [PostingDate |-> strip(lines[k].PostingDate),
         TransactionDate |-> strip(lines[k].TransactionDate),
         TransactionDetails |-> strip(lines[k].TransactionDetails),
         Amount |-> strip(lines[k].Amount)]]

\* the string string2float hands to float() for one amount
AmountNumeral(a) ==
    IF Last2(a) # "CR" THEN Remove(a, ",") ELSE Remove(DropLast2(a), ",")

\* string2float with the test for the credit marker inverted
AmountValueInverted(a) ==
    IF Last2(a) = "CR" THEN -1 * float(AmountNumeral(a)) ELSE float(AmountNumeral(a))

\* the value string2float stores for the amount string a
AmountValue(a) ==
    IF Last2(a) # "CR" THEN -1 * float(AmountNumeral(a)) ELSE float(AmountNumeral(a))

string2float(ts) ==
    [k \in 1..Len(ts) |-> [ts[k] EXCEPT !.Amount = AmountValue(ts[k].Amount)]]

mmap(m) ==
    CASE m = "JAN" -> "01" [] m = "FEB" -> "02" [] m = "MAR" -> "03" [] m = "APR" -> "04"
      [] m = "MAY" -> "05" [] m = "JUN" -> "06" [] m = "JUL" -> "07" [] m = "AUG" -> "08"
      [] m = "SEP" -> "09" [] m = "OCT" -> "10" [] m = "NOV" -> "11" [] m = "DEC" -> "12"

\* s[-3:]
Last3(s) == SubSeq(s, Len(s) - 2, Len(s))

\* change_date_fmt without the test of the statement's month
TokenYearAnyStatement(m, stmt_month, stmt_year) ==
    IF m = "DEC" THEN stmt_year - 1 ELSE stmt_year

\* the year a date token of month m gets on a statement of stmt_month, stmt_year
TokenYear(m, stmt_month, stmt_year) ==
    IF stmt_month = "JAN" /\ m = "DEC" THEN stmt_year - 1 ELSE stmt_year

\* one DDMMM token to DD/MM/YYYY
DateFmt(tok, stmt_month, stmt_year) ==
    SubSeq(tok, 1, 2) \o "/" \o mmap(Last3(tok)) \o "/"
        \o ToString(TokenYear(Last3(tok), stmt_month, stmt_year))

change_date_fmt(ts, sd) ==
    LET stmt_month == SubSeq(sd, Len(sd) - 6, Len(sd) - 4)
        stmt_year  == int(SubSeq(sd, Len(sd) - 3, Len(sd)))
    IN  [k \in 1..Len(ts) |->
            [ts[k] EXCEPT !.PostingDate = DateFmt(ts[k].PostingDate, stmt_month, stmt_year),
                          !.TransactionDate = DateFmt(ts[k].TransactionDate, stmt_month, stmt_year)]]

\* str.split(sep) for a one-character sep
RECURSIVE Split(_, _)
Split(s, c) ==
    LET at == {i \in 1..Len(s) : At(s, i) = c}
    IN  IF at = {} THEN <<s>>
        ELSE <<SubSeq(s, 1, SetMin(at) - 1)>> \o Split(From(s, SetMin(at) + 1), c)

\* a < b for Python strings: by code point, a proper prefix first
RECURSIVE StrLess(_, _)
StrLess(a, b) ==
    IF b = "" THEN FALSE
    ELSE IF a = "" THEN TRUE
    ELSE IF At(a, 1) # At(b, 1) THEN Ord(At(a, 1)) < Ord(At(b, 1))
    ELSE StrLess(From(a, 2), From(b, 2))

\* the sort key: year, month, day as strings
sort_by_date(item) ==
    LET date_parts == Split(item.PostingDate, "/")
    IN  <<date_parts[3], date_parts[2], date_parts[1]>>

\* a < b for Python tuples of three strings
KeyLess(a, b) ==
    \/ StrLess(a[1], b[1])
    \/ a[1] = b[1] /\ StrLess(a[2], b[2])
    \/ a[1] = b[1] /\ a[2] = b[2] /\ StrLess(a[3], b[3])

\* x inserted behind every element of the sorted list whose key is not greater
RECURSIVE InsertSorted(_, _)
InsertSorted(sorted, x) ==
    IF sorted = <<>> THEN <<x>>
    ELSE IF KeyLess(sort_by_date(x), sort_by_date(Head(sorted)))
         THEN <<x>> \o sorted
         ELSE <<Head(sorted)>> \o InsertSorted(Tail(sorted), x)

\* sorted(transactions, key=sort_by_date): the stable sort
RECURSIVE sort_txnx(_)
sort_txnx(ts) ==
    IF ts = <<>> THEN <<>>
    ELSE InsertSorted(sort_txnx(SubSeq(ts, 1, Len(ts) - 1)), ts[Len(ts)])

Abs(x) == IF x < 0 THEN -x ELSE x

Max(x, y) == IF x >= y THEN x ELSE y

\* math.isclose(a, b, abs_tol=0.001) on cents: |a - b| <= max(1e-9 * max(|a|, |b|), 0.001)
isclose(a, b) ==
    \/ 10 * Abs(a - b) <= 1
    \/ Abs(a - b) <= Max(Abs(a), Abs(b)) \div 1000000000

RECURSIVE SumAmounts(_)
SumAmounts(ts) == IF ts = <<>> THEN 0 ELSE Head(ts).Amount + SumAmounts(Tail(ts))

IsCredit(t) == t.Amount >= 0

IsCharge(t) == t.Amount < 0

\* validate_txns with the new charges checked before the payments
validate_txns_reordered(opening_balance, payments, new_charges, closing_balance, ts) ==
    LET payments_txns   == SumAmounts(SelectSeq(ts, IsCredit))
        new_charges_txn == SumAmounts(SelectSeq(ts, IsCharge))
        closing_chk     == opening_balance + payments_txns + new_charges_txn
    IN  IF ~isclose(new_charges, new_charges_txn)
        THEN Exc("NewChargesDontMatchError", new_charges, new_charges_txn)
        ELSE IF ~isclose(payments, payments_txns)
        THEN Exc("PaymentsDontMatchError", payments, payments_txns)
        ELSE IF ~isclose(closing_balance, closing_chk)
        THEN Exc("ClosingBalanceDontMatchError", closing_balance, closing_chk)
        ELSE NoErr

\* validate_txns without the check of the closing balance
validate_txns_no_closing(opening_balance, payments, new_charges, closing_balance, ts) ==
    LET payments_txns   == SumAmounts(SelectSeq(ts, IsCredit))
        new_charges_txn == SumAmounts(SelectSeq(ts, IsCharge))
    IN  IF ~isclose(payments, payments_txns)
        THEN Exc("PaymentsDontMatchError", payments, payments_txns)
        ELSE IF ~isclose(new_charges, new_charges_txn)
        THEN Exc("NewChargesDontMatchError", new_charges, new_charges_txn)
        ELSE NoErr

\* validate_txns: the exception it raises, NoErr when it returns
validate_txns(opening_balance, payments, new_charges, closing_balance, ts) ==
    LET payments_txns   == SumAmounts(SelectSeq(ts, IsCredit))
        new_charges_txn == SumAmounts(SelectSeq(ts, IsCharge))
        closing_chk     == opening_balance + payments_txns + new_charges_txn
    IN  IF ~isclose(payments, payments_txns)
        THEN Exc("PaymentsDontMatchError", payments, payments_txns)
        ELSE IF ~isclose(new_charges, new_charges_txn)
        THEN Exc("NewChargesDontMatchError", new_charges, new_charges_txn)
        ELSE IF ~isclose(closing_balance, closing_chk)
        THEN Exc("ClosingBalanceDontMatchError", closing_balance, closing_chk)
        ELSE NoErr

\* f'{amount:.2f}'.replace('.', ',')
FmtAmount(c) ==
    LET frac == Abs(c) % 100
    IN  (IF c < 0 THEN "-" ELSE "") \o ToString(Abs(c) \div 100) \o ","
            \o (IF frac < 10 THEN "0" ELSE "") \o ToString(frac)

\* the rows save_to_csv writes
CsvRows(ts) ==
    [k \in 1..Len(ts) |->
        <<ts[k].PostingDate, ts[k].TransactionDate, ts[k].TransactionDetails,
          FmtAmount(ts[k].Amount)>>]

-----------------------------------------------------------------------------
(* The input statements                                                    *)

\* bounds of the inputs
MaxFiles == 2

MaxLines == 2

\* a transaction line as printed: posting date, separator, transaction date,
\* details, amount, filler, credit marker
Line(post, sep, txn, details, amt, gap, marker) ==
    [post |-> post, sep |-> sep, txn |-> txn, details |-> details,
     amt |-> amt, gap |-> gap, marker |-> marker]

MkLine(l) ==
    l.post \o l.sep \o l.txn \o " " \o l.details \o " " \o l.amt \o l.gap \o l.marker

ShopLine  == Line("05JAN", " ", "06JAN", "SHOP", "30.00", "", "")
PayByLine == Line("30DEC", " ", "02JAN", "PAY BY 1234", "50.00", "", "CR")
TaxiLine  == Line("05JAN", " ", "30DEC", "TAXI 7", "1,030.00", "  ", "")

\* the lines that vary the amounts against the Account Summary
SumLines == {ShopLine, PayByLine, TaxiLine}

\* the lines that vary the shape of a line
ShapeLines ==
    SumLines \cup
    {Line("05JAN", "", "06JAN", "SUPERMARKET PURCHASE", "123.45", "", ""),
     Line("05JAN", " ", "06JAN", "SUPERMARKET PURCHASE", "123.45", "", ""),
     Line("05JAN", " ", "06JAN", "SUPERMARKET PURCHASE", "123.45", " ", "CR"),
     Line("04JAN", " ", "28NOV", "PAY BY 1234", "50.00", "", ""),
     Line("31DEC", " ", "31DEC", "REFUND", "20.00", "", "CRCR")}

SeqsUpTo(S, n) == UNION {[1..k -> S] : k \in 0..n}

\* the Account Summary figures as printed, each with its marker
Figures(ob, obm, pa, pam, nc, ncm, cb, cbm) ==
    [present |-> TRUE, ob |-> ob, obm |-> obm, pa |-> pa, pam |-> pam,
     nc |-> nc, ncm |-> ncm, cb |-> cb, cbm |-> cbm]

NoSummary == [Figures("", "", "", "", "", "", "", "") EXCEPT !.present = FALSE]

Summaries ==
    {Figures(ob, obm, pa, "", nc, "", cb, cbm) :
        ob \in {"100.00", "0.00"}, obm \in {"", "CR"}, pa \in {"50.00", "0.00"},
        nc \in {"30.00", "0.00"}, cb \in {"80.00", "100.00", "120.00", "0.00"},
        cbm \in {"", "CR"}}
    \cup {Figures("1,100.00", "", "50.00", "", "1,030.00", "", "2,080.00", ""),
          Figures("100.00", "", "50.00", "CR", "30.00", "", "80.00", ""),
          Figures("100.00", "", "50.00", "", "30.00", "CR", "80.00", ""),
          NoSummary}

StdSummary == Figures("100.00", "", "50.00", "", "30.00", "", "80.00", "")

\* the statement dates as printed; "" is a statement without the label
StmtDates == {"02JAN2023", "15FEB2023", "02JAN1000", ""}

RECURSIVE JoinLines(_)
JoinLines(ls) == IF ls = <<>> THEN "" ELSE MkLine(Head(ls)) \o "\n" \o JoinLines(Tail(ls))

MkSummary(f) ==
    IF f.present
    THEN SummaryLabel \o f.ob \o f.obm \o " " \o f.pa \o f.pam \o "  " \o f.nc \o f.ncm
            \o " " \o f.cb \o f.cbm \o "\n"
    ELSE "Account Summary not available\n"

\* a statement: what is printed on it, and the text of its two pages
Statement(d, f, ls) ==
    [date |-> d, figures |-> f, lines |-> ls,
     pages |-> <<"HSBC Credit Card\n"
                    \o (IF d = "" THEN "" ELSE StmtDateLabel \o d \o "\n")
                    \o MkSummary(f),
                 "Transactions\n" \o JoinLines(ls)>>]

\* a statement with a page that holds no text
ScannedStatement == [Statement("02JAN2023", StdSummary, <<>>) EXCEPT !.pages[2] = ""]

Statements ==
    {Statement("02JAN2023", f, ls) : f \in Summaries, ls \in SeqsUpTo(SumLines, MaxLines)}
    \cup {Statement(d, StdSummary, ls) : d \in StmtDates, ls \in SeqsUpTo(ShapeLines, MaxLines)}
    \cup {ScannedStatement}

\* one statement per outcome of process_pdf_file, for the batches of several files
BatchStatements ==
    {Statement("02JAN2023", StdSummary, <<PayByLine, ShopLine>>),
     Statement("", StdSummary, <<ShopLine>>),
     Statement("02JAN2023", NoSummary, <<ShopLine>>),
     Statement("02JAN2023", StdSummary, <<ShopLine>>),
     ScannedStatement}

Pages(S) == {st.pages : st \in S}

Batches ==
    {<<p>> : p \in Pages(Statements)}
    \cup (SeqsUpTo(Pages(BatchStatements), MaxFiles) \ {<<>>})

-----------------------------------------------------------------------------
(* hsbccc2csv.py: main and process_pdf_file                                *)

NoSummaryYet == [opening_balance |-> 0, payments |-> 0, new_charges |-> 0, closing_balance |-> 0]

\* the exceptions main has an except clause for
Caught == {"PayByTxnError", "NoTextError", "PaymentsDontMatchError",
           "NewChargesDontMatchError", "ClosingBalanceDontMatchError"}

Init ==
    /\ pdf_files \in Batches
    /\ idx = 0
    /\ pc = "main"
    /\ text = ""
    /\ stmt_date = ""
    /\ summary = NoSummaryYet
    /\ transactions = <<>>
    /\ err = NoErr
    /\ stdout = <<>>
    /\ called = {}
    /\ csv_files = <<>>
    /\ csv_in = ""
    /\ txns = ""
    /\ pcf = "idle"
    /\ csv_out = None

Raise(e) ==
    /\ err' = e
    /\ pc' = "except"

\* main: the for loop takes the next file and calls process_pdf_file, or ends
MainLoop ==
    /\ pc = "main"
    /\ IF idx < Len(pdf_files)
       THEN /\ idx' = idx + 1
            /\ called' = called \cup {idx + 1}
            /\ stdout' = Append(stdout, [line |-> "processing", file |-> idx + 1])
            /\ pc' = "extract_text"
       ELSE /\ pc' = "done"
            /\ UNCHANGED <<idx, called, stdout>>
    /\ text' = ""
    /\ stmt_date' = ""
    /\ summary' = NoSummaryYet
    /\ transactions' = <<>>
    /\ UNCHANGED <<pdf_files, err, csv_files, fixvars>>

ExtractText ==
    /\ pc = "extract_text"
    /\ IF HasEmptyPage(pdf_files[idx])
       THEN Raise(Exc("NoTextError", 0, 0)) /\ UNCHANGED text
       ELSE text' = extract_text(pdf_files[idx]) /\ pc' = "get_stmt_date" /\ UNCHANGED err
    /\ UNCHANGED <<pdf_files, idx, stmt_date, summary, transactions, stdout, called,
                   csv_files, fixvars>>

\* pattern.search(text)[0]: None[0] is a TypeError
GetStmtDate ==
    /\ pc = "get_stmt_date"
    /\ IF StmtDateSearch(text) = {}
       THEN Raise(Exc("TypeError", 0, 0)) /\ UNCHANGED stmt_date
       ELSE stmt_date' = get_stmt_date(text) /\ pc' = "get_account_summary" /\ UNCHANGED err
    /\ UNCHANGED <<pdf_files, idx, text, summary, transactions, stdout, called,
                   csv_files, fixvars>>

\* pattern.search(text).groupdict(): None.groupdict is an AttributeError
GetAccountSummary ==
    /\ pc = "get_account_summary"
    /\ IF SummarySearch(text) = {}
       THEN Raise(Exc("AttributeError", 0, 0)) /\ UNCHANGED summary
       ELSE /\ summary' = get_account_summary(text)
            /\ pc' = "extract_transaction_lines"
            /\ UNCHANGED err
    /\ UNCHANGED <<pdf_files, idx, text, stmt_date, transactions, stdout, called,
                   csv_files, fixvars>>

ExtractTransactionLines ==
    /\ pc = "extract_transaction_lines"
    /\ transactions' = extract_transaction_lines(text)
    /\ pc' = "strip_spaces"
    /\ UNCHANGED <<pdf_files, idx, text, stmt_date, summary, err, stdout, called,
                   csv_files, fixvars>>

StripSpaces ==
    /\ pc = "strip_spaces"
    /\ transactions' = strip_spaces(transactions)
    /\ pc' = "string2float"
    /\ UNCHANGED <<pdf_files, idx, text, stmt_date, summary, err, stdout, called,
                   csv_files, fixvars>>

\* float() of an amount that is no numeral is a ValueError
String2Float ==
    /\ pc = "string2float"
    /\ IF \A k \in 1..Len(transactions) : IsFloat(AmountNumeral(transactions[k].Amount))
       THEN /\ transactions' = string2float(transactions)
            /\ pc' = "change_date_fmt"
            /\ UNCHANGED err
       ELSE Raise(Exc("ValueError", 0, 0)) /\ UNCHANGED transactions
    /\ UNCHANGED <<pdf_files, idx, text, stmt_date, summary, stdout, called,
                   csv_files, fixvars>>

ChangeDateFmt ==
    /\ pc = "change_date_fmt"
    /\ transactions' = change_date_fmt(transactions, stmt_date)
    /\ pc' = "sort_txnx"
    /\ UNCHANGED <<pdf_files, idx, text, stmt_date, summary, err, stdout, called,
                   csv_files, fixvars>>

SortTxnx ==
    /\ pc = "sort_txnx"
    /\ transactions' = sort_txnx(transactions)
    /\ pc' = "validate_txns"
    /\ UNCHANGED <<pdf_files, idx, text, stmt_date, summary, err, stdout, called,
                   csv_files, fixvars>>

\* process_pdf_file going on to save_to_csv whatever validate_txns finds
ValidateTxnsIgnored ==
    /\ pc = "validate_txns"
    /\ pc' = "save_to_csv"
    /\ UNCHANGED <<pdf_files, idx, text, stmt_date, summary, transactions, err, stdout,
                   called, csv_files, fixvars>>

ValidateTxns ==
    /\ pc = "validate_txns"
    /\ LET e == validate_txns(summary.opening_balance, summary.payments,
                              summary.new_charges, summary.closing_balance, transactions)
       IN  IF e = NoErr
           THEN pc' = "save_to_csv" /\ UNCHANGED err
           ELSE Raise(e)
    /\ UNCHANGED <<pdf_files, idx, text, stmt_date, summary, transactions, stdout, called,
                   csv_files, fixvars>>

\* save_to_csv, and the return of process_pdf_file to the loop
SaveToCsv ==
    /\ pc = "save_to_csv"
    /\ csv_files' = (idx :> CsvRows(transactions)) @@ csv_files
    /\ pc' = "main"
    /\ UNCHANGED <<pdf_files, idx, text, stmt_date, summary, transactions, err, stdout,
                   called, fixvars>>

\* the exception reaches the try statement of main: an except clause prints it and
\* the loop goes on, or no clause matches and it leaves main
Except ==
    /\ pc = "except"
    /\ IF err.kind \in Caught
       THEN /\ stdout' = Append(stdout, [line |-> "Error", exc |-> err])
            /\ err' = NoErr
            /\ pc' = "main"
       ELSE /\ pc' = "crashed"
            /\ UNCHANGED <<stdout, err>>
    /\ UNCHANGED <<pdf_files, idx, text, stmt_date, summary, transactions, called,
                   csv_files, fixvars>>

Next ==
    \/ MainLoop
    \/ ExtractText
    \/ GetStmtDate
    \/ GetAccountSummary
    \/ ExtractTransactionLines
    \/ StripSpaces
    \/ String2Float
    \/ ChangeDateFmt
    \/ SortTxnx
    \/ ValidateTxns
    \/ SaveToCsv
    \/ Except

Spec == Init /\ [][Next]_vars

-----------------------------------------------------------------------------
(* hsbcfixcsv.py                                                           *)

\* s matches [0-9]{2}\/[0-9]{2}\/[0-9]{4} at i
DateAt(s, i) ==
    /\ AllDigits(s, i, i + 1) /\ At(s, i + 2) = "/"
    /\ AllDigits(s, i + 3, i + 4) /\ At(s, i + 5) = "/"
    /\ AllDigits(s, i + 6, i + 9)

\* one line under ^.+(?=date): the greedy .+ runs from the start of the line to
\* the last date that has a character before it
StripPreamble(line) ==
    LET dates == {k \in 2..Len(line) : DateAt(line, k)}
    IN  IF dates = {} THEN line ELSE From(line, SetMax(dates))

RECURSIVE JoinNl(_)
JoinNl(ls) ==
    IF Len(ls) = 1 THEN Head(ls) ELSE Head(ls) \o "\n" \o JoinNl(Tail(ls))

remove_funny_chars(t) ==
    LET ls == SplitLines(t)
    IN  JoinNl([k \in 1..Len(ls) |-> StripPreamble(ls[k])])

\* t with the characters at the positions in drop changed to c
RECURSIVE SubAt(_, _, _, _)
SubAt(t, drop, c, k) ==
    IF k > Len(t) THEN ""
    ELSE (IF k \in drop THEN c ELSE At(t, k)) \o SubAt(t, drop, c, k + 1)

\* (?<=[0-9]),(?=[0-9]{1,3}) replaced by ''
remove_commas(t) ==
    SubAt(t, {k \in 1..Len(t) : /\ At(t, k) = ","
                                /\ At(t, k - 1) \in Digits
                                /\ At(t, k + 1) \in Digits}, "", 1)

remove_quotation_marks(t) == Remove(t, "\"")

comma_to_semicolon(t) == Replace(t, ",", ";")

\* \.(?=[0-9]{2}[;\n]) replaced by ','
dot_to_comma(t) ==
    SubAt(t, {k \in 1..Len(t) : /\ At(t, k) = "."
                                /\ AllDigits(t, k + 1, k + 2)
                                /\ At(t, k + 3) \in {";", "\n"}}, ",", 1)

\* a run of two or more spaces replaced by one space
remove_excessive_spaces(t) ==
    SubAt(t, {k \in 2..Len(t) : At(t, k) = " " /\ At(t, k - 1) = " "}, "", 1)

\* bound of the generated input files: the number of pieces of text
MaxPieces == 3

CsvPieces == {"01/02/2023", ",", "\"", "Shop", " ", "1", "234.56", "\n", "."}

RECURSIVE ConcatPieces(_)
ConcatPieces(ps) == IF ps = <<>> THEN "" ELSE Head(ps) \o ConcatPieces(Tail(ps))

LedgerLine == "01/02/2023,\"Shop, Inc.\",1,234.56"

\* the input files: every text of up to MaxPieces pieces, and ledger lines as
\* exported, with and without the line break and with a preamble
CsvInputs ==
    {ConcatPieces(ps) : ps \in SeqsUpTo(CsvPieces, MaxPieces)}
    \cup {LedgerLine, LedgerLine \o "\n", "xx" \o LedgerLine \o "\n",
          "02/02/2023,Shop  A,\"1,234.56\",12.00\n03/02/2023,B,7.50,\"2,000.00\"\n"}

InitFix ==
    /\ csv_in \in CsvInputs
    /\ pcf = "read"
    /\ txns = ""
    /\ csv_out = None
    /\ pdf_files = <<>>
    /\ idx = 0
    /\ pc = "idle"
    /\ text = ""
    /\ stmt_date = ""
    /\ summary = NoSummaryYet
    /\ transactions = <<>>
    /\ err = NoErr
    /\ stdout = <<>>
    /\ called = {}
    /\ csv_files = <<>>

\* process_csv_file, one statement at a time
FixStep(at, result, then) ==
    /\ pcf = at
    /\ txns' = result
    /\ pcf' = then
    /\ UNCHANGED <<csv_in, csv_out, ccvars>>

ReadCsv == FixStep("read", csv_in, "remove_funny_chars")

RemoveFunnyChars == FixStep("remove_funny_chars", remove_funny_chars(txns), "remove_commas")

RemoveCommas == FixStep("remove_commas", remove_commas(txns), "remove_quotation_marks")

RemoveQuotationMarks ==
    FixStep("remove_quotation_marks", remove_quotation_marks(txns), "comma_to_semicolon")

CommaToSemicolon == FixStep("comma_to_semicolon", comma_to_semicolon(txns), "dot_to_comma")

DotToComma == FixStep("dot_to_comma", dot_to_comma(txns), "remove_excessive_spaces")

RemoveExcessiveSpaces ==
    FixStep("remove_excessive_spaces", remove_excessive_spaces(txns), "save_csv")

SaveCsv ==
    /\ pcf = "save_csv"
    /\ csv_out' = txns
    /\ pcf' = "done"
    /\ UNCHANGED <<csv_in, txns, ccvars>>

NextFix ==
    \/ ReadCsv
    \/ RemoveFunnyChars
    \/ RemoveCommas
    \/ RemoveQuotationMarks
    \/ CommaToSemicolon
    \/ DotToComma
    \/ RemoveExcessiveSpaces
    \/ SaveCsv

SpecFix == InitFix /\ [][NextFix]_vars

-----------------------------------------------------------------------------
(* validate_txns on its own: the figures and the amounts are drawn freely  *)

Money == {-8000, -3000, 0, 5000, 10000, 11900, 12000}

AmountRecord(a) ==
    [PostingDate |-> "05/01/2023", TransactionDate |-> "06/01/2023",
     TransactionDetails |-> "SHOP", Amount |-> a]

InitValidate ==
    /\ pdf_files = <<Statement("02JAN2023", StdSummary, <<>>).pages>>
    /\ idx = 1
    /\ pc = "validate_txns"
    /\ text = ""
    /\ stmt_date = ""
    /\ summary \in [opening_balance : Money, payments : Money,
                    new_charges : Money, closing_balance : Money]
    /\ transactions \in SeqsUpTo({AmountRecord(a) : a \in {5000, -3000, 0}}, MaxLines)
    /\ err = NoErr
    /\ stdout = <<>>
    /\ called = {1}
    /\ csv_files = <<>>
    /\ csv_in = ""
    /\ txns = ""
    /\ pcf = "idle"
    /\ csv_out = None

NextValidate ==
    \/ ValidateTxns
    \/ SaveToCsv
    \/ Except
    \/ MainLoop

SpecValidate == InitValidate /\ [][NextValidate]_vars

-----------------------------------------------------------------------------
(* What the claims are stated with                                         *)

\* the statement a file was generated from
StatementOf(pages) == CHOOSE st \in Statements : st.pages = pages

Cur == StatementOf(pdf_files[idx])

\* the magnitude of a printed figure, in cents
Mag(fig) == float(Remove(fig, ","))

RECURSIVE SumSeq(_)
SumSeq(q) == IF q = <<>> THEN 0 ELSE Head(q) + SumSeq(Tail(q))

NonNeg(a) == a >= 0

Neg(a) == a < 0

Amounts(ts) == [k \in 1..Len(ts) |-> ts[k].Amount]

CreditSum(ts) == SumSeq(SelectSeq(Amounts(ts), NonNeg))

ChargeSum(ts) == SumSeq(SelectSeq(Amounts(ts), Neg))

\* |a - b| <= 0.001, a and b in cents
Within(a, b) == 10 * (IF a >= b THEN a - b ELSE b - a) <= 1

ReconKinds == {"PaymentsDontMatchError", "NewChargesDontMatchError",
               "ClosingBalanceDontMatchError"}

\* the files the log shows a failure for
FailedFiles ==
    {stdout[k].file : k \in {j \in 1..(Len(stdout) - 1) :
                                stdout[j].line = "processing" /\ stdout[j + 1].line = "Error"}}

\* the amount of a row of an output file, in cents
RowAmount(row) ==
    IF At(row[4], 1) = "-" THEN -1 * float(Replace(From(row[4], 2), ",", "."))
    ELSE float(Replace(row[4], ",", "."))

\* sub occurs in s
Contains(s, sub) == \E i \in 1..Len(s) : HasAt(s, i, sub)

-----------------------------------------------------------------------------
(* The claims                                                              *)

\* C1 (as claimed): every failure process_pdf_file raises on a file is caught at
\* the per-file boundary, so that when main has ended, on whatever file a failure
\* was raised, process_pdf_file has been called on every file of the list.
C1_FailureNeverStopsBatch ==
    pc \in {"done", "crashed"} => called = 1..Len(pdf_files)

\* C2: a file that raised a failure has no output file, save_to_csv runs only
\* once validate_txns has returned, and the rows of every output file pass the
\* three reconciliation checks against the figures of its statement.
C2_OutputOnlyAfterReconciliation ==
    /\ pc = "save_to_csv" =>
          /\ err = NoErr
          /\ Within(summary.payments, CreditSum(transactions))
          /\ Within(summary.new_charges, ChargeSum(transactions))
          /\ Within(summary.closing_balance,
                    summary.opening_balance + CreditSum(transactions) + ChargeSum(transactions))
    /\ \A i \in DOMAIN csv_files :
          /\ i \notin FailedFiles
          /\ i = idx => pc \in {"main", "done"}
          /\ LET fig    == get_account_summary(extract_text(pdf_files[i]))
                 rows   == csv_files[i]
                 amts   == [k \in 1..Len(rows) |-> RowAmount(rows[k])]
                 credit == SumSeq(SelectSeq(amts, NonNeg))
                 charge == SumSeq(SelectSeq(amts, Neg))
             IN  /\ Within(fig.payments, credit)
                 /\ Within(fig.new_charges, charge)
                 /\ Within(fig.closing_balance, fig.opening_balance + credit + charge)
    /\ \A i \in FailedFiles : i \notin DOMAIN csv_files
    /\ pc \in {"except", "crashed"} => idx \notin DOMAIN csv_files

\* C2 witness: a batch in which one file failed and another was written
C2_Witness ==
    /\ pc = "done"
    /\ FailedFiles # {}
    /\ \E i \in DOMAIN csv_files : csv_files[i] # <<>>

\* C3: validate_txns checks payments, new charges and closing balance in this
\* order, raises the failure of the first equality that does not hold, with the
\* declared and the computed value, and returns iff all three hold.
C3_FirstViolatedCheckRaises ==
    LET c  == CreditSum(transactions)
        g  == ChargeSum(transactions)
        ok1 == Within(summary.payments, c)
        ok2 == Within(summary.new_charges, g)
        ok3 == Within(summary.closing_balance, summary.opening_balance + c + g)
    IN  /\ pc = "save_to_csv" => ok1 /\ ok2 /\ ok3
        /\ pc = "except" =>
              /\ err.kind \in ReconKinds
              /\ err.kind = "PaymentsDontMatchError" <=> ~ok1
              /\ err.kind = "NewChargesDontMatchError" <=> ok1 /\ ~ok2
              /\ err.kind = "ClosingBalanceDontMatchError" <=> ok1 /\ ok2 /\ ~ok3
              /\ err.kind = "PaymentsDontMatchError" =>
                    err.declared = summary.payments /\ err.computed = c
              /\ err.kind = "NewChargesDontMatchError" =>
                    err.declared = summary.new_charges /\ err.computed = g
              /\ err.kind = "ClosingBalanceDontMatchError" =>
                    /\ err.declared = summary.closing_balance
                    /\ err.computed = summary.opening_balance + c + g

\* C3 witness: opening 100.00, credits 50.00, charges -30.00 and a declared
\* closing balance of 119.00 raise the closing balance failure with 119.00, 120.00
C3_Witness ==
    /\ pc = "except"
    /\ summary = [opening_balance |-> 10000, payments |-> 5000,
                  new_charges |-> -3000, closing_balance |-> 11900]
    /\ CreditSum(transactions) = 5000
    /\ ChargeSum(transactions) = -3000
    /\ err = Exc("ClosingBalanceDontMatchError", 11900, 12000)

AnyFigureNonzero ==
    \/ summary.opening_balance # 0 \/ summary.payments # 0
    \/ summary.new_charges # 0 \/ summary.closing_balance # 0

BalanceMoved ==
    \/ summary.payments # 0 \/ summary.new_charges # 0
    \/ summary.closing_balance # summary.opening_balance

\* C4 (as claimed): with no transaction line and a declared figure that is not
\* zero, validate_txns raises, so save_to_csv is never reached.
C4_EmptyWithNonzeroFiguresFails ==
    ~(pc = "save_to_csv" /\ transactions = <<>> /\ AnyFigureNonzero)

\* C4 (amended): with no transaction line, validate_txns raises a reconciliation
\* failure, and no output file is written, iff payments or new charges are not
\* zero or the closing balance differs from the opening balance.
C4_EmptyFailsIffBalanceMoved ==
    /\ (pc = "save_to_csv" /\ transactions = <<>>) => ~BalanceMoved
    /\ (pc = "except" /\ err.kind \in ReconKinds /\ transactions = <<>>) =>
          BalanceMoved /\ idx \notin DOMAIN csv_files
    /\ (pc = "validate_txns" /\ transactions = <<>> /\ BalanceMoved) =>
          validate_txns(summary.opening_balance, summary.payments, summary.new_charges,
                        summary.closing_balance, transactions).kind \in ReconKinds
    /\ \A i \in DOMAIN csv_files :
          csv_files[i] = <<>> =>
             LET fig == get_account_summary(extract_text(pdf_files[i]))
             IN  /\ fig.payments = 0 /\ fig.new_charges = 0
                 /\ fig.closing_balance = fig.opening_balance

\* C4 witness: a statement without transaction lines whose closing balance
\* differs from its opening balance has raised the closing balance failure
C4_Witness ==
    /\ pc = "except"
    /\ transactions = <<>>
    /\ summary.payments = 0 /\ summary.new_charges = 0
    /\ summary.closing_balance # summary.opening_balance
    /\ err.kind = "ClosingBalanceDontMatchError"

\* a row of an output file that is a balance payment: a payment reference in
\* the details and a credit as amount
IsNoiseRow(row) == Contains(row[3], "PAY BY") /\ At(row[4], 1) # "-"

IsNoiseLine(l) == Contains(l.details, "PAY BY") /\ l.marker = "CR"

\* C5 (as claimed): no output file holds a balance payment record, and a
\* statement without one is not written (it fails with PayByTxnError).
C5_NoiseRecordsFiltered ==
    \A i \in DOMAIN csv_files :
        /\ \A k \in 1..Len(csv_files[i]) : ~IsNoiseRow(csv_files[i][k])
        /\ \E k \in 1..Len(StatementOf(pdf_files[i]).lines) :
              IsNoiseLine(StatementOf(pdf_files[i]).lines[k])

Signed(fig, marker) == IF marker = "CR" THEN Mag(fig) ELSE -1 * Mag(fig)

\* C6 (as claimed): get_account_summary stores opening balance, payments and
\* closing balance as +magnitude with the credit marker and -magnitude without
\* it, and new charges as -magnitude.
C6_SummarySignConvention ==
    pc = "extract_transaction_lines" =>
        /\ summary.opening_balance = Signed(Cur.figures.ob, Cur.figures.obm)
        /\ summary.payments = Signed(Cur.figures.pa, Cur.figures.pam)
        /\ summary.new_charges = -1 * Mag(Cur.figures.nc)
        /\ summary.closing_balance = Signed(Cur.figures.cb, Cur.figures.cbm)

\* the amount a printed line stands for
LineAmount(l) == IF l.marker = "CR" THEN Mag(l.amt) ELSE -1 * Mag(l.amt)

Separated(l) == l.sep = " "

OneMarker(l) == l.marker \in {"", "CR"}

\* C7 (as claimed): every line of posting date, transaction date, details and
\* amount, the two date tokens adjoining as in 05JAN06JAN included, yields one
\* record, in text order, with -magnitude, or +magnitude under the marker CR.
C7_EveryLineYieldsRecord ==
    pc = "change_date_fmt" =>
        /\ Len(transactions) = Len(Cur.lines)
        /\ \A k \in 1..Len(transactions) :
              transactions[k].Amount = LineAmount(Cur.lines[k])

\* C7 (amended): a line whose posting date token is followed by a space yields
\* exactly one record, in text order, with -magnitude without the marker and
\* +magnitude with one CR; a line whose date tokens adjoin yields no record.
C7_SeparatedLineYieldsRecord ==
    pc = "change_date_fmt" =>
        LET expected == SelectSeq(Cur.lines, Separated)
        IN  /\ \A k \in 1..Len(expected) : OneMarker(expected[k])
            /\ Len(transactions) = Len(expected)
            /\ \A k \in 1..Len(transactions) :
                  /\ transactions[k].PostingDate = expected[k].post
                  /\ transactions[k].TransactionDate = expected[k].txn
                  /\ transactions[k].TransactionDetails = expected[k].details
                  /\ transactions[k].Amount = LineAmount(expected[k])

\* C7 witness: of the line 05JAN06JAN ... 123.45 and the line
\* 05JAN 06JAN ... 123.45 CR only the second became a record, of +123.45
C7_Witness ==
    /\ pc = "change_date_fmt"
    /\ Len(Cur.lines) = 2
    /\ ~Separated(Cur.lines[1])
    /\ Len(transactions) = 1
    /\ transactions[1].Amount = 12345

\* the numeric year, month and day of a DD/MM/YYYY date
DateParts(d) ==
    LET parts == Split(d, "/")
    IN  <<int(parts[3]), int(parts[2]), int(parts[1])>>

MonthNumber(m) ==
    CASE m = "JAN" -> 1 [] m = "FEB" -> 2 [] m = "MAR" -> 3 [] m = "APR" -> 4
      [] m = "MAY" -> 5 [] m = "JUN" -> 6 [] m = "JUL" -> 7 [] m = "AUG" -> 8
      [] m = "SEP" -> 9 [] m = "OCT" -> 10 [] m = "NOV" -> 11 [] m = "DEC" -> 12

\* the date a token DDMMM stands for on the statement dated sd (DDMMMYYYY)
ResolvedDate(tok, sd) ==
    LET year == int(SubSeq(sd, 6, 9))
    IN  <<IF SubSeq(sd, 3, 5) = "JAN" /\ SubSeq(tok, 3, 5) = "DEC" THEN year - 1 ELSE year,
          MonthNumber(SubSeq(tok, 3, 5)), int(SubSeq(tok, 1, 2))>>

\* C8: change_date_fmt resolves a DEC token to statementYear - 1 on a JAN
\* statement and every other token to statementYear, posting date and
\* transaction date each on its own.
C8_CrossYearRule ==
    pc = "sort_txnx" =>
        LET expected == SelectSeq(Cur.lines, Separated)
        IN  /\ Len(transactions) = Len(expected)
            /\ \A k \in 1..Len(transactions) :
                  /\ DateParts(transactions[k].PostingDate)
                        = ResolvedDate(expected[k].post, Cur.date)
                  /\ DateParts(transactions[k].TransactionDate)
                        = ResolvedDate(expected[k].txn, Cur.date)

\* C8 witness: a record whose posting date resolved to the year before the
\* statement's and whose transaction date resolved to the statement's year
C8_Witness ==
    /\ pc = "sort_txnx"
    /\ \E k \in 1..Len(transactions) :
          /\ DateParts(transactions[k].PostingDate)[1] = int(SubSeq(stmt_date, 6, 9)) - 1
          /\ DateParts(transactions[k].TransactionDate)[1] = int(SubSeq(stmt_date, 6, 9))

\* a <= b for numeric (year, month, day)
DateLeq(a, b) ==
    \/ a[1] < b[1]
    \/ a[1] = b[1] /\ a[2] < b[2]
    \/ a[1] = b[1] /\ a[2] = b[2] /\ a[3] <= b[3]

\* the records as change_date_fmt left them, before the sort
Unsorted == change_date_fmt(string2float(strip_spaces(extract_transaction_lines(text))),
                            stmt_date)

\* C9 (as claimed): the sorted list is a permutation of the list before the
\* sort, non-decreasing in the numeric (year, month, day) of the posting date,
\* with records of equal posting date in their extraction order.
C9_SortedByNumericDate ==
    pc = "validate_txns" =>
        /\ Len(transactions) = Len(Unsorted)
        /\ \E f \in [1..Len(Unsorted) -> 1..Len(Unsorted)] :
              /\ \A i, j \in 1..Len(Unsorted) : i # j => f[i] # f[j]
              /\ \A i \in 1..Len(Unsorted) : transactions[i] = Unsorted[f[i]]
              /\ \A i, j \in 1..Len(Unsorted) :
                    (i < j /\ transactions[i].PostingDate = transactions[j].PostingDate)
                        => f[i] < f[j]
        /\ \A i, j \in 1..Len(transactions) :
              i < j => DateLeq(DateParts(transactions[i].PostingDate),
                               DateParts(transactions[j].PostingDate))

\* C10 (as claimed): the ledger line 01/02/2023,"Shop, Inc.",1,234.56 is
\* written as 01/02/2023;Shop Inc.;1234,56, with or without its line break.
C10_LedgerLineRewritten ==
    pcf = "done" =>
        /\ csv_in = LedgerLine => csv_out = "01/02/2023;Shop Inc.;1234,56"
        /\ csv_in = LedgerLine \o "\n" => csv_out = "01/02/2023;Shop Inc.;1234,56\n"

=============================================================================
